---- MODULE Spec2Model ----
(***************************************************************************)
(* Gesture-driven formation visualizer.                                    *)
(*                                                                         *)
(*   HandRecognitionService  (services/hand-recognition.service.ts)        *)
(*   VisualizerComponent     (components/visualizer/visualizer.component.ts)*)
(*   AppComponent            (app.component.ts)                            *)
(*                                                                         *)
(* Number representation.  Landmark coordinates are integers in units of   *)
(* 1/1000 of the normalized image size, taken on the even grid so that the *)
(* midpoint (a + b) / 2 is exact.  Distances are compared by their squares *)
(* (Math.sqrt is monotone).  Formation coordinates are integers (rounded   *)
(* scene units), angles are integers in 1/1000 rad.  Current positions and *)
(* rotations of the meshes are fixed-point numbers with denominator Scale, *)
(* which makes the 0.05 interpolation exact for MaxTicks ticks.            *)
(***************************************************************************)
EXTENDS Integers, Sequences, FiniteSets, TLC

VARIABLES
    \* ---- HandRecognitionService
    handLandmarker,   \* TRUE when the HandLandmarker object is defined
    isLoaded,         \* signal isLoaded
    currentGesture,   \* signal currentGesture
    pinchCenter,      \* signal pinchCenter (Null or [x, y])
    modelLoad,        \* initializeHandLandmarker: "pending" | "loaded" | "failed"
    predictLoop,      \* predictWebcam chain: "none" | "scheduled" | "rejected"
    results,          \* results.landmarks of the last detectForVideo
    \* ---- AppComponent
    cameraStream,     \* startCamera: "requesting" | "attached" | "loadeddata" | "denied"
    streamStarted,    \* signal streamStarted
    \* ---- VisualizerComponent
    viewInit,         \* ngAfterViewInit has run
    destroyed,        \* ngOnDestroy has run
    targets,          \* targets.scatter / .tree / .focus
    meshes,           \* meshes[i]: position, rotation, userData.targetPosition/.targetRotation
    cameraPosition,   \* camera.position
    animationId,      \* animationId (0 for null, or a requestAnimationFrame handle >= 1)
    rafAnimate,       \* handles of the pending animation-frame callbacks of animate
    resizeListeners,  \* the 'resize' listeners registered on window
    effectDirty,      \* the constructor's effect is scheduled to run
    \* ---- history
    ticks,            \* number of animate() executions so far
    transitions,      \* stamp of the last reassignment of the target poses
    processed,        \* the last gesture transitionTo was called with and did not ignore
    lastCall,         \* the gesture of the last transitionTo call
    origin,           \* position and rotation of the meshes when their targets were last written
    since,            \* number of animate() executions since then
    op                \* the operation that produced this state

serviceVars == <<handLandmarker, isLoaded, currentGesture, pinchCenter, modelLoad,
                 predictLoop, results>>
appVars == <<cameraStream, streamStarted>>
visualizerVars == <<viewInit, destroyed, targets, meshes, cameraPosition, animationId,
                    rafAnimate, resizeListeners, ticks, transitions, processed, lastCall,
                    origin, since>>
vars == <<serviceVars, appVars, visualizerVars, effectDirty, op>>

\* null and undefined, as records so that they compare with points
Null == [null |-> TRUE]
Undefined == [undefined |-> TRUE]

GestureType == {"NONE", "OPEN_PALM", "FIST", "PINCH"}

(***************************************************************************)
(* Bounds of the model.                                                    *)
(***************************************************************************)
\* number of managed objects (imageCount is 50 in the source)
imageCount == 2
\* number of animate() executions explored with the controller alone
MaxTicks == 3
\* number of animate() executions explored in the whole program
MaxProgramTicks == 2

(***************************************************************************)
(* Landmark frames.                                                        *)
(***************************************************************************)
LandmarkCount == 21
WRIST == 0
THUMB_TIP == 4
INDEX_PIP == 6
INDEX_TIP == 8
MIDDLE_PIP == 10
MIDDLE_TIP == 12
RING_PIP == 14
RING_TIP == 16
PINKY_PIP == 18
PINKY_TIP == 20
\* isPinch threshold 0.05, in 1/1000
PinchThreshold == 50

Pt(px, py) == [x |-> px, y |-> py, z |-> 0]

\* landmarks[idx] of a JavaScript array: undefined beyond the end
At(landmarks, idx) ==
    IF idx \in DOMAIN landmarks THEN landmarks[idx] ELSE Undefined

Len0(arr) == Cardinality(DOMAIN arr)

Sq(n) == n * n

\* dist with the depth included
distSq3D(p1, p2) == Sq(p1.x - p2.x) + Sq(p1.y - p2.y) + Sq(p1.z - p2.z)

\* dist(p1, p2), squared: (p1.x - p2.x)^2 + (p1.y - p2.y)^2, z ignored
distSq(p1, p2) == Sq(p1.x - p2.x) + Sq(p1.y - p2.y)

\* dist(p1, p2) dereferences both points: a TypeError when one is undefined
distThrows(p1, p2) == p1 = Undefined \/ p2 = Undefined

\* isFingerClosed with the comparison turned round
isFingerClosedFarther(landmarks, tipIdx, pipIdx) ==
    distSq(landmarks[tipIdx], landmarks[WRIST]) > distSq(landmarks[pipIdx], landmarks[WRIST])

\* isFingerClosed with a tip level with its pip counted as closed
isFingerClosedOrLevel(landmarks, tipIdx, pipIdx) ==
    distSq(landmarks[tipIdx], landmarks[WRIST]) <= distSq(landmarks[pipIdx], landmarks[WRIST])

\* isFingerClosed(tipIdx, pipIdx): the tip is nearer to the wrist than the pip joint
isFingerClosed(landmarks, tipIdx, pipIdx) ==
    distSq(landmarks[tipIdx], landmarks[WRIST]) < distSq(landmarks[pipIdx], landmarks[WRIST])

isFingerClosedThrows(landmarks, tipIdx, pipIdx) ==
    \/ distThrows(At(landmarks, tipIdx), At(landmarks, WRIST))
    \/ distThrows(At(landmarks, pipIdx), At(landmarks, WRIST))

\* the value written when no branch of analyzeGesture sets the gesture
DefaultGesture(gesture) == gesture

(***************************************************************************)
(* analyzeGesture(landmarks): the new values of currentGesture and         *)
(* pinchCenter, and whether the call threw, from the values held before.   *)
(***************************************************************************)
analyzeGesture(landmarks, gesture, center) ==
    LET thumbTip == At(landmarks, THUMB_TIP)
        indexTip == At(landmarks, INDEX_TIP)
    IN  IF distThrows(thumbTip, indexTip)
        THEN [gesture |-> gesture, pinchCenter |-> center, threw |-> TRUE]
        ELSE
        IF distSq(thumbTip, indexTip) < Sq(PinchThreshold)
        THEN [gesture |-> "PINCH",
              pinchCenter |-> [x |-> (thumbTip.x + indexTip.x) \div 2,
                               y |-> (thumbTip.y + indexTip.y) \div 2],
              threw |-> FALSE]
        ELSE
        \* this.pinchCenter.set(null) has run from here on
        IF \/ isFingerClosedThrows(landmarks, INDEX_TIP, INDEX_PIP)
           \/ isFingerClosedThrows(landmarks, MIDDLE_TIP, MIDDLE_PIP)
           \/ isFingerClosedThrows(landmarks, RING_TIP, RING_PIP)
           \/ isFingerClosedThrows(landmarks, PINKY_TIP, PINKY_PIP)
        THEN [gesture |-> gesture, pinchCenter |-> Null, threw |-> TRUE]
        ELSE
        LET indexClosed == isFingerClosed(landmarks, INDEX_TIP, INDEX_PIP)
            middleClosed == isFingerClosed(landmarks, MIDDLE_TIP, MIDDLE_PIP)
            ringClosed == isFingerClosed(landmarks, RING_TIP, RING_PIP)
            pinkyClosed == isFingerClosed(landmarks, PINKY_TIP, PINKY_PIP)
        IN  IF indexClosed /\ middleClosed /\ ringClosed /\ pinkyClosed
            THEN [gesture |-> "FIST", pinchCenter |-> Null, threw |-> FALSE]
            ELSE IF ~indexClosed /\ ~middleClosed /\ ~ringClosed /\ ~pinkyClosed
                    /\ ~(distSq(thumbTip, indexTip) < Sq(PinchThreshold))
            THEN [gesture |-> "OPEN_PALM", pinchCenter |-> Null, threw |-> FALSE]
            ELSE [gesture |-> DefaultGesture(gesture), pinchCenter |-> Null,
                  threw |-> FALSE]

(***************************************************************************)
(* The frames the detector delivers.  A hand is 21 landmarks; the wrist is *)
(* at (0.5, 0.9), the thumb tip at (0.5, 0.5).                             *)
(***************************************************************************)
WristPoint == Pt(500, 900)
ThumbTipPoint == Pt(500, 500)
\* pinch distance 0.01 and 0.03, exactly 0.05 (two ways), and far
PinchingIndexTips == {Pt(510, 500), Pt(500, 530)}
IndexTipPoints == PinchingIndexTips \cup {Pt(550, 500), Pt(530, 540), Pt(600, 300)}
\* pinch distance 0.01 in the image plane, 0.2 behind the thumb tip
DeepIndexTip == [x |-> 510, y |-> 500, z |-> 200]
\* farther from the wrist than the near tips, nearer than all, mirror of (550, 500)
IndexPipPoints == {Pt(500, 400), Pt(500, 600), Pt(450, 500)}
\* the image columns of the middle, ring and pinky fingers
MiddleColumn == 500 - 20
RingColumn == 500 - 60
PinkyColumn == 500 - 100
FingerPip(col) == Pt(col, 500)
\* curled (nearer to the wrist than the pip) and extended
FingerTipPoints(col) == {Pt(col, 700), Pt(col, 300)}
\* at exactly the pip's distance from the wrist
FingerTipLevel(col) == Pt(1000 - col, 500)

HandFrame(indexTip, indexPip, middleTip, ringTip, pinkyTip) ==
    [i \in 0..(LandmarkCount - 1) |->
        CASE i = WRIST -> WristPoint
          [] i = THUMB_TIP -> ThumbTipPoint
          [] i = INDEX_PIP -> indexPip
          [] i = INDEX_TIP -> indexTip
          [] i = MIDDLE_PIP -> FingerPip(MiddleColumn)
          [] i = MIDDLE_TIP -> middleTip
          [] i = RING_PIP -> FingerPip(RingColumn)
          [] i = RING_TIP -> ringTip
          [] i = PINKY_PIP -> FingerPip(PinkyColumn)
          [] i = PINKY_TIP -> pinkyTip
          [] OTHER -> Pt(500, 700)]

\* all four fingers curled; a fist unless the index tip pinches
FistFrame(indexTip) ==
    HandFrame(indexTip, Pt(500, 400), Pt(MiddleColumn, 700), Pt(RingColumn, 700),
              Pt(PinkyColumn, 700))
OpenPalmFrame ==
    HandFrame(Pt(600, 300), Pt(500, 600), Pt(MiddleColumn, 300), Pt(RingColumn, 300),
              Pt(PinkyColumn, 300))
\* index and middle extended, ring and pinky curled
AmbiguousFrame ==
    HandFrame(Pt(600, 300), Pt(500, 600), Pt(MiddleColumn, 300), Pt(RingColumn, 700),
              Pt(PinkyColumn, 700))

WellFormedFrames ==
    { HandFrame(it, ip, mt, rt, pt) :
        it \in {Pt(510, 500), Pt(550, 500), Pt(600, 300)}, ip \in IndexPipPoints,
        mt \in FingerTipPoints(MiddleColumn), rt \in FingerTipPoints(RingColumn),
        pt \in FingerTipPoints(PinkyColumn) }
    \cup { FistFrame(it) : it \in IndexTipPoints \cup {DeepIndexTip} }
    \cup { HandFrame(Pt(600, 300), Pt(500, 600), FingerTipLevel(MiddleColumn),
                     rt, FingerTipLevel(PinkyColumn)) :
             rt \in FingerTipPoints(RingColumn) \cup {FingerTipLevel(RingColumn)} }

Truncate(frame, n) == [i \in 0..(n - 1) |-> frame[i]]

\* a pinching hand and a fist, cut to every length below 21
MalformedFrames ==
    { Truncate(f, n) : f \in {FistFrame(Pt(510, 500)), FistFrame(Pt(550, 500))},
                       n \in 0..(LandmarkCount - 1) }

\* results.landmarks of one detectForVideo call (numHands: 1): absent, or a list
\* of hands
NoLandmarks == [defined |-> FALSE, hands |-> <<>>]
Hands(list) == [defined |-> TRUE, hands |-> list]
NoHandResults == {NoLandmarks, Hands(<<>>)}
DetectionResults ==
    NoHandResults \cup { Hands(<<f>>) : f \in WellFormedFrames \cup MalformedFrames }
\* one result of every kind: no hand, a pinch, a fist, an open palm, an ambiguous
\* hand, and a frame cut short
DetectionSamples ==
    {NoLandmarks}
    \cup { Hands(<<f>>) : f \in {FistFrame(Pt(510, 500)), FistFrame(Pt(550, 500)),
                                  OpenPalmFrame, AmbiguousFrame,
                                  Truncate(FistFrame(Pt(550, 500)), 12)} }

(***************************************************************************)
(* Vectors, formations and target poses.                                   *)
(***************************************************************************)
Vec(vx, vy, vz) == [x |-> vx, y |-> vy, z |-> vz]
Euler(ex, ey, ez) == [x |-> ex, y |-> ey, z |-> ez]

Indices == 0..(imageCount - 1)

RECURSIVE Pow(_, _)
Pow(b, e) == IF e = 0 THEN 1 ELSE b * Pow(b, e - 1)

\* delta = 0.05 = 1 / DeltaInv
DeltaInv == 20
\* denominator of the current positions and rotations
Scale == Pow(DeltaInv, MaxTicks)
Scaled(v) == [x |-> v.x * Scale, y |-> v.y * Scale, z |-> v.z * Scale]

\* Math.random() * 4000 - 2000 per axis and object: two samples of the whole
\* Scatter formation, every coordinate in [-2000, 2000)
ScatterSamples ==
    { [i \in Indices |-> Vec(-2000 + 100 * i, 0, 1000)],
      [i \in Indices |-> Vec(1500, -500 - 100 * i, 0)] }
\* Math.random() * Math.PI for x and y of every object, in 1/1000 rad: samples of
\* [0, 3142), the same draw for every object
RandomRotations ==
    { [i \in Indices |-> r] : r \in {[x |-> 0, y |-> 3000], [x |-> 3000, y |-> 0]} }

\* r * cos(theta) * sin(phi) and r * sin(theta) * sin(phi) of the Tree formation,
\* r = 800, phi = acos(-1 + 2i/n), theta = sqrt(n * pi) * phi, rounded; row n, column i
TreeXZ ==
    << <<<<0, 0>>>>,
       <<<<0, 0>>, <<-560, -572>>>>,
       <<<<0, 0>>, <<689, -306>>, <<-606, -449>>>>,
       <<<<0, 0>>, <<289, 630>>, <<604, -524>>, <<-583, -374>>>> >>
\* 1200 * cos(theta) and 1200 * sin(theta) of the Focus formation,
\* theta = i * 0.175 + pi, rounded; column i
FocusXZ ==
    << <<-1200, 0>>, <<-1182, -209>>, <<-1127, -411>>, <<-1038, -601>> >>

TreeStep == 20
TreeBase == 500
FocusColumns == 10
FocusRowStep == 180
FocusTop == 400

TreePoint(n, i) == Vec(TreeXZ[n][i + 1][1], i * TreeStep - TreeBase, TreeXZ[n][i + 1][2])
FocusPoint(i) ==
    Vec(FocusXZ[i + 1][1], -((i \div FocusColumns) * FocusRowStep) + FocusTop,
        FocusXZ[i + 1][2])

\* rotation of a dummy Object3D at p after lookAt(0, 0, 2500), Euler XYZ, rounded
LookAtTable ==
    { <<Vec(0, -500, 0), Euler(-197, 0, 0)>>,
      <<Vec(-560, -480, -572), Euler(-155, 178, 28)>>,
      <<Vec(689, -480, -306), Euler(-169, -238, -40)>>,
      <<Vec(-606, -460, -449), Euler(-155, 200, 31)>>,
      <<Vec(289, -480, 630), Euler(-251, -148, -38)>>,
      <<Vec(604, -460, -524), Euler(-151, -195, -29)>>,
      <<Vec(-583, -440, -374), Euler(-152, 198, 30)>>,
      <<Vec(-1200, 400, 0), Euler(159, 443, -68)>>,
      <<Vec(-1182, 400, -209), Euler(147, 407, -58)>>,
      <<Vec(-1127, 400, -411), Euler(137, 366, -49)>>,
      <<Vec(-1038, 400, -601), Euler(128, 321, -41)>> }
LookAtRotation(p) == (CHOOSE e \in LookAtTable : e[1] = p)[2]

\* userData.targetPosition holds a reference to an entry of a formation
\* (targetSet[i]) or a vector of its own (clone())
Ref(set, i) == [kind |-> "ref", set |-> set, index |-> i]
Own(v) == [kind |-> "own", value |-> v]
Deref(tg, p) == IF p.kind = "ref" THEN tg[p.set][p.index] ELSE p.value

NoTargets == [scatter |-> <<>>, tree |-> <<>>, focus |-> <<>>]

\* createObjects(): the three formations, from the random Scatter samples
createTargets(scatter) ==
    [scatter |-> [i \in Indices |-> scatter[i]],
     tree |-> [i \in Indices |-> TreePoint(imageCount, i)],
     focus |-> [i \in Indices |-> FocusPoint(i)]]

\* createObjects(): the meshes, from the formations and the random start rotations
createMeshes(tg, rot) ==
    [i \in Indices |->
        [position |-> Scaled(tg.scatter[i]),
         rotation |-> Scaled(Euler(rot[i].x, rot[i].y, 0)),
         userData |-> [targetPosition |-> Own(tg.scatter[i]),
                       targetRotation |-> Euler(0, 0, 0),
                       setBy |-> [position |-> 0, rotation |-> 0]]]]

NextStamp(stamp) == IF stamp = 1 THEN 2 ELSE 1

\* targetSetOf with the formations of PINCH and FIST exchanged
targetSetOfSwapped(gesture) ==
    CASE gesture = "PINCH" -> "tree"
      [] gesture = "FIST" -> "focus"
      [] OTHER -> "scatter"

\* the formation transitionTo selects for a gesture (targetSet)
targetSetOf(gesture) ==
    CASE gesture = "PINCH" -> "focus"
      [] gesture = "FIST" -> "tree"
      [] gesture = "OPEN_PALM" -> "scatter"
      [] OTHER -> "scatter"

lookAtCenterOf(gesture) == gesture \in {"PINCH", "FIST"}

\* the new userData of mesh i
retargetOne(tg, targetSet, lookAtCenter, rnd, stamp, i) ==
    [targetPosition |-> Ref(targetSet, i),
     targetRotation |-> IF lookAtCenter THEN LookAtRotation(tg[targetSet][i])
                                        ELSE Euler(rnd[i].x, rnd[i].y, 0),
     setBy |-> [position |-> stamp, rotation |-> stamp]]

\* retarget with the loop stopping one mesh early
retargetAllButLast(ms, tg, targetSet, lookAtCenter, rnd, stamp) ==
    [i \in DOMAIN ms |->
        IF i + 1 < Len0(ms)
        THEN [ms[i] EXCEPT !.userData =
                 retargetOne(tg, targetSet, lookAtCenter, rnd, stamp, i)]
        ELSE ms[i]]

\* the loop of transitionTo over the meshes; rnd are the Math.random() draws and
\* stamp identifies this call in userData.setBy
retarget(ms, tg, targetSet, lookAtCenter, rnd, stamp) ==
    [i \in DOMAIN ms |->
        [ms[i] EXCEPT !.userData =
            retargetOne(tg, targetSet, lookAtCenter, rnd, stamp, i)]]

\* transitionTo without the early return on 'NONE'
transitionToUnguarded(gesture, ms, tg, rnd, stamp) ==
    retarget(ms, tg, targetSetOf(gesture), lookAtCenterOf(gesture), rnd, stamp)

\* transitionTo(gesture): the meshes afterwards
transitionTo(gesture, ms, tg, rnd, stamp) ==
    IF gesture = "NONE" THEN ms
    ELSE retarget(ms, tg, targetSetOf(gesture), lookAtCenterOf(gesture), rnd, stamp)

\* lerp with half the step: current + (target - current) * 0.025
lerpHalfStep(current, target) == current + (target * Scale - current) \div (2 * DeltaInv)

\* current + (target - current) * 0.05 on one axis
lerp(current, target) == current + (target * Scale - current) \div DeltaInv

\* targetsAfterLerp with the interpolation applied to the vector userData.targetPosition
\* refers to (targetPos.lerp(object.position, delta)) instead of the position
targetsAfterLerpInPlace(ms, tg) ==
    [set \in DOMAIN tg |->
        [i \in DOMAIN tg[set] |->
            IF ms[i].userData.targetPosition = Ref(set, i)
            THEN LET toward(t, c) == (t * Scale * (DeltaInv - 1) + c) \div (Scale * DeltaInv)
                 IN  Vec(toward(tg[set][i].x, ms[i].position.x),
                         toward(tg[set][i].y, ms[i].position.y),
                         toward(tg[set][i].z, ms[i].position.z))
            ELSE tg[set][i]]]

\* the formations after the loop of animate(): object.position.lerp(targetPos, delta)
\* writes object.position and only reads targetPos, which may be a formation entry
targetsAfterLerp(ms, tg) == tg

\* animateMeshes with the tick also resetting userData.targetRotation
animateMeshesResetTarget(ms, tg) ==
    [i \in DOMAIN ms |->
        LET targetPos == Deref(tg, ms[i].userData.targetPosition)
            targetRot == ms[i].userData.targetRotation
        IN  [ms[i] EXCEPT
                !.position = [x |-> lerp(@.x, targetPos.x), y |-> lerp(@.y, targetPos.y),
                              z |-> lerp(@.z, targetPos.z)],
                !.rotation = [x |-> lerp(@.x, targetRot.x), y |-> lerp(@.y, targetRot.y),
                              z |-> lerp(@.z, targetRot.z)],
                !.userData.targetRotation = Euler(0, 0, 0)]]

\* the loop of animate() over the meshes
animateMeshes(ms, tg) ==
    [i \in DOMAIN ms |->
        LET targetPos == Deref(tg, ms[i].userData.targetPosition)
            targetRot == ms[i].userData.targetRotation
        IN  [ms[i] EXCEPT
                !.position = [x |-> lerp(@.x, targetPos.x), y |-> lerp(@.y, targetPos.y),
                              z |-> lerp(@.z, targetPos.z)],
                !.rotation = [x |-> lerp(@.x, targetRot.x), y |-> lerp(@.y, targetRot.y),
                              z |-> lerp(@.z, targetRot.z)]]]

\* object.position and object.rotation of every mesh
Poses(ms) == [i \in DOMAIN ms |-> [position |-> ms[i].position, rotation |-> ms[i].rotation]]

\* camera coordinates are fixed-point with denominator CamScale
CamScale == 10000
CameraRestZ == 2500
\* 0.01 = 1 / CamAlphaInv
CamAlphaInv == 100
\* (Math.sin(time) * 100, Math.cos(time) * 100) for samples of Date.now()
TimeSamples == {<<0, 100>>, <<100, 0>>}
InitialCamera == Vec(0, 0, CameraRestZ * CamScale)

\* animateCamera with the camera held still while the objects are in the Focus
\* formation
animateCameraByGesture(cam, time) ==
    IF processed = "PINCH" THEN cam
    ELSE [cam EXCEPT !.x = @ + (time[1] * CamScale - @) \div CamAlphaInv,
                     !.y = @ + (time[2] * CamScale - @) \div CamAlphaInv]

\* the camera drift of animate()
animateCamera(cam, time) ==
    [cam EXCEPT !.x = @ + (time[1] * CamScale - @) \div CamAlphaInv,
                !.y = @ + (time[2] * CamScale - @) \div CamAlphaInv]

(***************************************************************************)
(* Initial state: the service, the application component and the           *)
(* visualizer have been constructed; no lifecycle hook has run.            *)
(***************************************************************************)
Init ==
    /\ handLandmarker = FALSE
    /\ isLoaded = FALSE
    /\ currentGesture = "NONE"
    /\ pinchCenter = Null
    /\ modelLoad = "pending"
    /\ predictLoop = "none"
    /\ results = NoLandmarks
    /\ cameraStream = "requesting"
    /\ streamStarted = FALSE
    /\ viewInit = FALSE
    /\ destroyed = FALSE
    /\ targets = NoTargets
    /\ meshes = <<>>
    /\ cameraPosition = InitialCamera
    /\ animationId = 0
    /\ rafAnimate = {}
    /\ resizeListeners = {}
    /\ effectDirty = TRUE
    /\ ticks = 0
    /\ transitions = 0
    /\ processed = "NONE"
    /\ lastCall = "NONE"
    /\ origin = <<>>
    /\ since = 0
    /\ op = "constructor"

(***************************************************************************)
(* HandRecognitionService                                                  *)
(***************************************************************************)
\* initializeHandLandmarker() resolves
InitializeHandLandmarker ==
    /\ modelLoad = "pending"
    /\ modelLoad' = "loaded"
    /\ handLandmarker' = TRUE
    /\ isLoaded' = TRUE
    /\ op' = "initializeHandLandmarker"
    /\ UNCHANGED <<currentGesture, pinchCenter, predictLoop, results, appVars,
                   visualizerVars, effectDirty>>

\* initializeHandLandmarker() catches an error
InitializeHandLandmarkerError ==
    /\ modelLoad = "pending"
    /\ modelLoad' = "failed"
    /\ op' = "initializeHandLandmarkerError"
    /\ UNCHANGED <<handLandmarker, isLoaded, currentGesture, pinchCenter, predictLoop,
                   results, appVars, visualizerVars, effectDirty>>

\* the reset to 'NONE' the source leaves commented out
NoHandGestureReset(gesture) == "NONE"

\* the gesture kept when the detector reports no hand
NoHandGesture(gesture) == gesture

\* a signal notifies the effect when set() changes its value
Notify(dirty, old, new) == IF destroyed THEN FALSE ELSE (dirty \/ new # old)

\* One execution of predictWebcam in which detectForVideo runs and returns detected
Detect(detected) ==
    LET outcome == IF detected.defined /\ Len(detected.hands) > 0
                   THEN analyzeGesture(detected.hands[1], currentGesture, pinchCenter)
                   ELSE [gesture |-> NoHandGesture(currentGesture),
                         pinchCenter |-> pinchCenter, threw |-> FALSE]
    IN  /\ results' = detected
        /\ currentGesture' = outcome.gesture
        /\ pinchCenter' = outcome.pinchCenter
        \* a throw rejects the async call before requestAnimationFrame(predictWebcam)
        /\ predictLoop' = IF outcome.threw THEN "rejected" ELSE "scheduled"
        /\ effectDirty' = Notify(effectDirty, currentGesture, outcome.gesture)

\* One execution of predictWebcam that skips detection (video.currentTime is 0)
SkipDetection ==
    /\ predictLoop' = "scheduled"
    /\ UNCHANGED <<results, currentGesture, pinchCenter, effectDirty>>

\* One execution of predictWebcam; this.handLandmarker is defined once the chain runs
PredictWebcamBody(inputs) ==
    \/ SkipDetection
    \/ \E detected \in inputs : Detect(detected)

\* the animation-frame callback predictWebcam
PredictWebcam(inputs) ==
    /\ predictLoop = "scheduled"
    /\ ~effectDirty
    /\ PredictWebcamBody(inputs)
    /\ op' = "predictWebcam"
    /\ UNCHANGED <<handLandmarker, isLoaded, modelLoad, appVars, visualizerVars>>

(***************************************************************************)
(* AppComponent                                                            *)
(***************************************************************************)
\* startCamera(): getUserMedia resolves, the 'loadeddata' listener is added
StartCamera ==
    /\ cameraStream = "requesting"
    /\ ~effectDirty
    /\ cameraStream' = "attached"
    /\ op' = "startCamera"
    /\ UNCHANGED <<serviceVars, streamStarted, visualizerVars, effectDirty>>

\* startCamera(): getUserMedia rejects
StartCameraError ==
    /\ cameraStream = "requesting"
    /\ ~effectDirty
    /\ cameraStream' = "denied"
    /\ op' = "startCameraError"
    /\ UNCHANGED <<serviceVars, streamStarted, visualizerVars, effectDirty>>

\* the 'loadeddata' listener: startPrediction(video), which returns at once
\* when the model is not loaded and runs predictWebcam otherwise
LoadedData(inputs) ==
    /\ cameraStream = "attached"
    /\ ~effectDirty
    /\ cameraStream' = "loadeddata"
    /\ streamStarted' = TRUE
    /\ IF handLandmarker
       THEN PredictWebcamBody(inputs)
       ELSE UNCHANGED <<currentGesture, pinchCenter, predictLoop, results, effectDirty>>
    /\ op' = "startPrediction"
    /\ UNCHANGED <<handLandmarker, isLoaded, modelLoad, visualizerVars>>

(***************************************************************************)
(* VisualizerComponent                                                     *)
(***************************************************************************)
\* the listener identity this.onWindowResize.bind(this) creates at each evaluation
BoundAtInit == "bound@ngAfterViewInit"
BoundAtDestroy == "bound@ngOnDestroy"

\* ngAfterViewInit(): initThree, createObjects, animate (its first execution),
\* transitionTo('OPEN_PALM'), addEventListener
NgAfterViewInit ==
    /\ ~viewInit
    /\ ~destroyed
    /\ \E scatter \in ScatterSamples, rot \in RandomRotations,
          time \in TimeSamples, rnd \in RandomRotations :
          LET tg == createTargets(scatter)
              created == createMeshes(tg, rot)
              moved == animateMeshes(created, tg)
          IN  /\ targets' = targetsAfterLerp(created, tg)
              /\ meshes' = transitionTo("OPEN_PALM", moved, tg, rnd, NextStamp(0))
              /\ origin' = Poses(moved)
              /\ cameraPosition' = animateCamera(InitialCamera, time)
    /\ viewInit' = TRUE
    /\ animationId' = 1
    /\ rafAnimate' = {1}
    /\ ticks' = 1
    /\ transitions' = NextStamp(0)
    /\ processed' = "OPEN_PALM"
    /\ lastCall' = "OPEN_PALM"
    /\ since' = 0
    /\ resizeListeners' = resizeListeners \cup {BoundAtInit}
    /\ op' = "ngAfterViewInit"
    /\ UNCHANGED <<serviceVars, appVars, destroyed, effectDirty>>

\* a call transitionTo(gesture) and its record in the history variables
CallTransitionTo(gesture) ==
    /\ \E rnd \in RandomRotations :
          meshes' = transitionTo(gesture, meshes, targets, rnd, NextStamp(transitions))
    /\ transitions' = IF gesture = "NONE" \/ meshes = <<>> THEN transitions
                      ELSE NextStamp(transitions)
    /\ processed' = IF gesture = "NONE" THEN processed ELSE gesture
    /\ lastCall' = gesture
    /\ origin' = IF gesture = "NONE" THEN origin ELSE Poses(meshes)
    /\ since' = IF gesture = "NONE" THEN since ELSE 0

\* the constructor's effect: transitionTo(this.activeGesture())
Effect ==
    /\ effectDirty
    /\ ~destroyed
    /\ effectDirty' = FALSE
    /\ CallTransitionTo(currentGesture)
    /\ op' = "effect"
    /\ UNCHANGED <<serviceVars, appVars, viewInit, destroyed, targets, cameraPosition,
                   animationId, rafAnimate, resizeListeners, ticks>>

\* the animation-frame callback animate
Animate(maxTicks) ==
    /\ ticks < maxTicks
    /\ ~effectDirty
    /\ \E handle \in rafAnimate :
          rafAnimate' = (rafAnimate \ {handle}) \cup {ticks + 1}
    /\ animationId' = ticks + 1
    /\ ticks' = ticks + 1
    /\ meshes' = animateMeshes(meshes, targets)
    /\ targets' = targetsAfterLerp(meshes, targets)
    /\ \E time \in TimeSamples : cameraPosition' = animateCamera(cameraPosition, time)
    /\ since' = since + 1
    /\ op' = "animate"
    /\ UNCHANGED <<serviceVars, appVars, viewInit, destroyed, resizeListeners,
                   transitions, processed, lastCall, origin, effectDirty>>

\* cancelAnimationFrame with the handle of the frame before the pending one
cancelAnimationFrameStale(pending, id) == IF id # 0 THEN pending \ {id - 1} ELSE pending

\* if (this.animationId) cancelAnimationFrame(this.animationId): the callbacks
\* still pending
cancelAnimationFrame(pending, id) == IF id # 0 THEN pending \ {id} ELSE pending

\* ngOnDestroy(); the component's effect is destroyed with it
NgOnDestroy ==
    /\ viewInit
    /\ ~destroyed
    /\ destroyed' = TRUE
    /\ rafAnimate' = cancelAnimationFrame(rafAnimate, animationId)
    /\ resizeListeners' = resizeListeners \ {BoundAtDestroy}
    /\ effectDirty' = FALSE
    /\ op' = "ngOnDestroy"
    /\ UNCHANGED <<serviceVars, appVars, viewInit, targets, meshes, cameraPosition,
                   animationId, ticks, transitions, processed, lastCall, origin, since>>

\* a 'resize' event of window reaches a registered listener: onWindowResize()
OnWindowResize ==
    /\ resizeListeners # {}
    /\ op' = IF destroyed THEN "onWindowResize@disposed" ELSE "onWindowResize"
    /\ UNCHANGED <<serviceVars, appVars, visualizerVars, effectDirty>>

(***************************************************************************)
(* The whole program, the detector delivering one frame of every kind.     *)
(***************************************************************************)
Next ==
    \/ InitializeHandLandmarker
    \/ InitializeHandLandmarkerError
    \/ PredictWebcam(DetectionSamples)
    \/ StartCamera
    \/ StartCameraError
    \/ LoadedData(DetectionSamples)
    \/ NgAfterViewInit
    \/ Effect
    \/ Animate(MaxProgramTicks)
    \/ NgOnDestroy
    \/ OnWindowResize

Spec == Init /\ [][Next]_vars

(***************************************************************************)
(* The detection cycle alone, over every frame of DetectionResults; the    *)
(* visualizer takes part with its effect only.                             *)
(***************************************************************************)
NextService ==
    \/ InitializeHandLandmarker
    \/ InitializeHandLandmarkerError
    \/ PredictWebcam(DetectionResults)
    \/ StartCamera
    \/ StartCameraError
    \/ LoadedData(DetectionResults)
    \/ Effect

SpecService == Init /\ [][NextService]_vars

(***************************************************************************)
(* The FormationController alone: after ngAfterViewInit, transitionTo is   *)
(* called with any gesture, in any order, between render ticks; the effect *)
(* runs once, with the initial gesture.                                    *)
(***************************************************************************)
OnGestureChanged ==
    /\ viewInit
    /\ \E gesture \in GestureType : CallTransitionTo(gesture)
    /\ op' = "transitionTo"
    /\ UNCHANGED <<serviceVars, appVars, viewInit, destroyed, targets, cameraPosition,
                   animationId, rafAnimate, resizeListeners, ticks, effectDirty>>

NextController ==
    \/ NgAfterViewInit
    \/ Effect
    \/ OnGestureChanged
    \/ Animate(MaxTicks)

SpecController == Init /\ [][NextController]_vars

(***************************************************************************)
(* Properties.                                                             *)
(***************************************************************************)
\* the target poses of all meshes
TargetPoses ==
    [i \in DOMAIN meshes |->
        <<meshes[i].userData.targetPosition, meshes[i].userData.targetRotation>>]

\* the formation a gesture stands for
FormationOf(gesture) ==
    CASE gesture = "OPEN_PALM" -> "scatter"
      [] gesture = "FIST" -> "tree"
      [] gesture = "PINCH" -> "focus"

\* the hand of the last detection, when there is one
HasHand == results.defined /\ Len(results.hands) > 0
Hand == results.hands[1]
WellFormed(frame) == DOMAIN frame = 0..(LandmarkCount - 1)
Malformed(frame) == \E n \in 1..(LandmarkCount - 1) : DOMAIN frame = 0..(n - 1)
PlanarSq(p, q) == (p.x - q.x) * (p.x - q.x) + (p.y - q.y) * (p.y - q.y)
Pinching(frame) ==
    PlanarSq(frame[THUMB_TIP], frame[INDEX_TIP]) < PinchThreshold * PinchThreshold
Closed(frame, tip, pip) == PlanarSq(frame[tip], frame[WRIST]) < PlanarSq(frame[pip], frame[WRIST])
ClosedFingers(frame) ==
    { f \in {<<INDEX_TIP, INDEX_PIP>>, <<MIDDLE_TIP, MIDDLE_PIP>>, <<RING_TIP, RING_PIP>>,
             <<PINKY_TIP, PINKY_PIP>>} : Closed(frame, f[1], f[2]) }
Ambiguous(frame) ==
    /\ WellFormed(frame)
    /\ ~Pinching(frame)
    /\ Cardinality(ClosedFingers(frame)) \in 1..3

\* C1: after any sequence of transitionTo calls following start-up, every
\* object's targetPosition is the entry of its index in the formation of the
\* most recent gesture other than NONE (OPEN_PALM: Scatter, FIST: Tree, PINCH: Focus).
C1_TargetIsFormationOfLastGesture ==
    viewInit =>
        \A i \in Indices :
            /\ meshes[i].userData.targetPosition = Ref(FormationOf(processed), i)
            /\ Deref(targets, meshes[i].userData.targetPosition)
                 = targets[FormationOf(processed)][i]

\* C1 witness: PINCH was processed last and object 0 heads for Focus[0], which is
\* neither Tree[0] nor Scatter[0].
C1_Witness ==
    /\ op = "transitionTo"
    /\ lastCall = "PINCH"
    /\ Deref(targets, meshes[0].userData.targetPosition) = targets.focus[0]
    /\ targets.focus[0] # targets.tree[0]
    /\ targets.focus[0] # targets.scatter[0]

\* C2: once an ambiguous well-formed frame (no pinch, one to three of the four
\* fingers closed) has been classified, the current gesture is NONE.
C2_AmbiguousFrameYieldsNone ==
    (HasHand /\ Ambiguous(Hand)) => currentGesture = "NONE"

\* C3: when the gesture handed to the controller is the one whose formation it
\* entered last (the start-up OPEN_PALM included), no target pose changes.
C3_SameGestureKeepsTargets ==
    [][(op' = "effect" /\ lastCall' = processed) => TargetPoses' = TargetPoses]_vars

\* C4: processing the gesture NONE leaves every object's targetPosition and
\* targetRotation unchanged.
C4_NoneKeepsTargets ==
    [][(op' \in {"transitionTo", "effect"} /\ lastCall' = "NONE")
           => TargetPoses' = TargetPoses]_vars

\* C4 witness: NONE has just been processed after FIST had been.
C4_Witness ==
    /\ op = "transitionTo"
    /\ lastCall = "NONE"
    /\ processed = "FIST"

\* C5: whenever a render tick can run, all target positions belong to one
\* formation and every object's targetPosition and targetRotation were written by
\* the same call, which is the same for all objects.
C5_TickSeesWholeTransition ==
    viewInit =>
        /\ \E set \in {"scatter", "tree", "focus"} :
              \A i \in Indices :
                  Deref(targets, meshes[i].userData.targetPosition) = targets[set][i]
        /\ \A i \in Indices :
              /\ meshes[i].userData.setBy.position = meshes[i].userData.setBy.rotation
              /\ meshes[i].userData.setBy = meshes[0].userData.setBy

\* C5 witness: a tick has run after the objects were sent to the Tree formation.
C5_Witness ==
    /\ op = "animate"
    /\ processed = "FIST"
    /\ \A i \in Indices : meshes[i].userData.targetPosition = Ref("tree", i)

\* C6: pinchCenter is present exactly when the current gesture is PINCH.
C6_PinchCenterIffPinch ==
    (pinchCenter # Null) <=> (currentGesture = "PINCH")

\* C7: a detection cycle in which the detector reports no hand leaves the
\* gesture and pinchCenter as they were and keeps the cycle scheduled.
C7_NoHandRetainsGesture ==
    [][(op' \in {"predictWebcam", "startPrediction"} /\ results' \in NoHandResults
        /\ predictLoop' # "none")
           => /\ currentGesture' = currentGesture
              /\ pinchCenter' = pinchCenter
              /\ predictLoop' = "scheduled"]_vars

\* C7 witness: the detector has reported an empty hand list while the gesture was
\* PINCH, and PINCH and its centre are still there.
C7_Witness ==
    /\ op = "predictWebcam"
    /\ results = Hands(<<>>)
    /\ currentGesture = "PINCH"
    /\ pinchCenter # Null

\* C8: a cycle that receives a malformed frame (1 to 20 landmarks) leaves the
\* gesture and pinchCenter as they were.
C8_MalformedFrameDropped ==
    [][(op' \in {"predictWebcam", "startPrediction"} /\ results'.defined
        /\ Len(results'.hands) > 0 /\ Malformed(results'.hands[1]))
           => /\ currentGesture' = currentGesture
              /\ pinchCenter' = pinchCenter]_vars

\* C9: after a cycle that received a malformed frame the detection cycle is
\* still scheduled.
C9_MalformedFrameKeepsCycle ==
    (HasHand /\ Malformed(Hand)) => predictLoop = "scheduled"

\* C10: once a well-formed frame with planar thumb-index distance below 0.05 has
\* been classified, the gesture is PINCH and pinchCenter is the midpoint of the
\* two tips, whatever the fingers and the previous gesture were.
C10_PinchTakesPrecedence ==
    (HasHand /\ WellFormed(Hand) /\ Pinching(Hand)) =>
        /\ currentGesture = "PINCH"
        /\ pinchCenter # Null
        /\ 2 * pinchCenter.x = Hand[THUMB_TIP].x + Hand[INDEX_TIP].x
        /\ 2 * pinchCenter.y = Hand[THUMB_TIP].y + Hand[INDEX_TIP].y

\* C10 witness: a frame with all four fingers closed, the index tip 0.01 beside
\* and 0.2 behind the thumb tip, was classified PINCH.
C10_Witness ==
    /\ HasHand
    /\ Hand = FistFrame(DeepIndexTip)
    /\ Cardinality(ClosedFingers(Hand)) = 4
    /\ currentGesture = "PINCH"

\* C11: once a well-formed frame with planar thumb-index distance at least 0.05
\* and all four fingers closed (tip strictly nearer to the wrist than the pip)
\* has been classified, the gesture is FIST.
C11_AllClosedYieldsFist ==
    (HasHand /\ WellFormed(Hand) /\ ~Pinching(Hand)
     /\ Cardinality(ClosedFingers(Hand)) = 4)
        => currentGesture = "FIST"

\* C11 witness: a frame with all four fingers closed and the index tip exactly 0.05
\* from the thumb tip was classified FIST.
C11_Witness ==
    /\ HasHand
    /\ Hand = FistFrame(Pt(550, 500))
    /\ PlanarSq(Hand[THUMB_TIP], Hand[INDEX_TIP]) = PinchThreshold * PinchThreshold
    /\ Cardinality(ClosedFingers(Hand)) = 4
    /\ currentGesture = "FIST"

\* C12: once a well-formed frame with planar thumb-index distance at least 0.05
\* and none of the four fingers closed (a tip level with its pip is open) has been
\* classified, the gesture is OPEN_PALM.
C12_NoneClosedYieldsOpenPalm ==
    (HasHand /\ WellFormed(Hand) /\ ~Pinching(Hand) /\ ClosedFingers(Hand) = {})
        => currentGesture = "OPEN_PALM"

\* C12 witness: a frame whose middle, ring and pinky tips are exactly as far from
\* the wrist as their pips, the index extended, was classified OPEN_PALM.
C12_Witness ==
    /\ HasHand
    /\ WellFormed(Hand)
    /\ \A f \in {<<MIDDLE_TIP, MIDDLE_PIP>>, <<RING_TIP, RING_PIP>>,
                 <<PINKY_TIP, PINKY_PIP>>} :
          PlanarSq(Hand[f[1]], Hand[WRIST]) = PlanarSq(Hand[f[2]], Hand[WRIST])
    /\ ~Pinching(Hand)
    /\ currentGesture = "OPEN_PALM"

\* C13: classification has no hidden state: a cycle that classifies a well-formed
\* frame ends with the gesture and pinchCenter that a run holding any other
\* gesture and pinchCenter before the cycle would end with on the same frame.
C13_ResultIsFunctionOfFrame ==
    [][(op' \in {"predictWebcam", "startPrediction"} /\ results'.defined
        /\ Len(results'.hands) > 0 /\ WellFormed(results'.hands[1]))
           => \A gesture \in GestureType, center \in {Null, [x |-> 505, y |-> 500]} :
                 LET other == analyzeGesture(results'.hands[1], gesture, center)
                 IN  /\ other.gesture = currentGesture'
                     /\ other.pinchCenter = pinchCenter']_vars

\* the positions the target poses stand for
TargetPoints ==
    [i \in DOMAIN meshes |-> Deref(targets, meshes[i].userData.targetPosition)]

\* C14: a render tick leaves every object's targetPosition and targetRotation (and
\* the point the targetPosition stands for) unchanged, and a step that changes a
\* target pose is one in which the controller processes a gesture other than NONE:
\* the start-up transition, the effect, or a direct transitionTo call.
C14_OnlyControllerWritesTargets ==
    [][/\ op' = "animate" => (TargetPoses' = TargetPoses /\ TargetPoints' = TargetPoints)
       /\ (viewInit /\ (TargetPoses' # TargetPoses \/ TargetPoints' # TargetPoints))
             => (op' \in {"effect", "transitionTo"} /\ lastCall' # "NONE")
       /\ (~viewInit /\ TargetPoses' # TargetPoses) => op' = "ngAfterViewInit"]_vars

\* C14 witness: a tick has run after PINCH sent the objects to the Focus formation;
\* the objects have not arrived and their target poses are those PINCH assigned.
C14_Witness ==
    /\ op = "animate"
    /\ lastCall = "PINCH"
    /\ \A i \in Indices :
          /\ meshes[i].userData.targetPosition = Ref("focus", i)
          /\ meshes[i].userData.targetRotation = LookAtRotation(targets.focus[i])
          /\ meshes[i].position # Scaled(targets.focus[i])

\* C15: from start-up on, each of the three formations has exactly imageCount
\* entries, Tree and Focus are the generated points and Scatter one of the random
\* draws, and no step (transition, tick or other) changes any entry.
C15_FormationsImmutable ==
    [][/\ viewInit => targets' = targets
       /\ viewInit' =>
             /\ \A set \in {"scatter", "tree", "focus"} : Len0(targets'[set]) = imageCount
             /\ \E scatter \in ScatterSamples : targets' = createTargets(scatter)]_vars

\* C15 witness: a tick has run while every object's targetPosition referred to its
\* Tree entry and the object was elsewhere, and the Tree entries are the generated
\* points.
C15_Witness ==
    /\ op = "animate"
    /\ ticks = MaxTicks
    /\ \A i \in Indices :
          /\ meshes[i].userData.targetPosition = Ref("tree", i)
          /\ meshes[i].position # Scaled(targets.tree[i])
          /\ targets.tree[i] = TreePoint(imageCount, i)

Abs(n) == IF n < 0 THEN -n ELSE n
Sgn(n) == IF n < 0 THEN -1 ELSE IF n > 0 THEN 1 ELSE 0

\* for mesh i and each of its six axes: the current value, the target and the
\* value held when the target was written, all with denominator Scale
Axes(ms, tg, org, i) ==
    LET targetPos == Deref(tg, ms[i].userData.targetPosition)
        targetRot == ms[i].userData.targetRotation
        axis(c, t, o) == [current |-> c, target |-> t * Scale, initial |-> o]
    IN  << axis(ms[i].position.x, targetPos.x, org[i].position.x),
           axis(ms[i].position.y, targetPos.y, org[i].position.y),
           axis(ms[i].position.z, targetPos.z, org[i].position.z),
           axis(ms[i].rotation.x, targetRot.x, org[i].rotation.x),
           axis(ms[i].rotation.y, targetRot.y, org[i].rotation.y),
           axis(ms[i].rotation.z, targetRot.z, org[i].rotation.z) >>

\* C16: on every axis of every object a render tick does not increase
\* |current - target|, does not carry current across the target, leaves current
\* unchanged when it equals the target, and after k ticks since the targets were
\* written |current - target| is at most |initial - target| * (19/20)^k.
C16_LerpContracts ==
    [][op' = "animate" =>
          \A i \in Indices : \A a \in 1..6 :
              LET before == Axes(meshes, targets, origin, i)[a]
                  after == Axes(meshes', targets', origin', i)[a]
              IN  /\ after.target = before.target
                  /\ Abs(after.current - after.target) <= Abs(before.current - before.target)
                  /\ Sgn(after.current - after.target)
                        \in {0, Sgn(before.current - before.target)}
                  /\ Sgn(after.current - after.target)
                        \in {0, Sgn(after.initial - after.target)}
                  /\ before.current = before.target => after.current = before.current
                  /\ Abs(after.current - after.target)
                        <= (Abs(after.initial - after.target) \div Pow(DeltaInv, since'))
                              * Pow(DeltaInv - 1, since')]_vars

\* C16 witness: two ticks have run since FIST sent object 0 from its Scatter point
\* to its Tree point; on the x axis the distance has shrunk to exactly (19/20)^2 of
\* its start, on the y axis the object was at the target all along and stayed.
C16_Witness ==
    /\ op = "animate"
    /\ since = 2
    /\ processed = "FIST"
    /\ meshes[0].userData.targetPosition = Ref("tree", 0)
    /\ origin[0].position = Scaled(targets.scatter[0])
    /\ targets.scatter[0].x # targets.tree[0].x
    /\ Abs(meshes[0].position.x - targets.tree[0].x * Scale)
          = (Abs(origin[0].position.x - targets.tree[0].x * Scale) \div Sq(DeltaInv))
               * Sq(DeltaInv - 1)
    /\ targets.scatter[0].y = targets.tree[0].y
    /\ meshes[0].position.y = targets.tree[0].y * Scale

\* C17: at most one animation-frame callback of animate is pending at any time;
\* once ngOnDestroy has run none is pending and animate is never the operation
\* that produced a state.
C17_RenderLoopStops ==
    /\ Cardinality(rafAnimate) <= 1
    /\ destroyed => (rafAnimate = {} /\ op # "animate")

\* C17 witness: the render loop ran its ticks, the callback of the last one was
\* pending under the handle animationId, and ngOnDestroy has cancelled it.
C17_Witness ==
    /\ destroyed
    /\ op = "ngOnDestroy"
    /\ ticks = MaxProgramTicks
    /\ animationId = ticks
    /\ rafAnimate = {}

\* C18: once the model has loaded and 'loadeddata' has fired, in either order, the
\* detection cycle has been started (predictWebcam has run and is scheduled again,
\* unless a later frame ended the chain).
C18_BothEventsStartDetection ==
    (handLandmarker /\ cameraStream = "loadeddata") => predictLoop # "none"

\* C19: after ngOnDestroy no 'resize' listener of the visualizer is registered on
\* window and no resize event runs onWindowResize on the disposed renderer.
C19_ResizeListenerRemoved ==
    destroyed => (resizeListeners = {} /\ op # "onWindowResize@disposed")

\* C20: a step in which the controller processes a gesture leaves every object's
\* current position and rotation and the camera position unchanged, and the
\* camera position after a render tick is the drift of the camera position before
\* it for some clock reading, whatever the gesture and the targets are.
C20_TransitionAndCameraDecoupled ==
    [][/\ op' \in {"effect", "transitionTo"}
             => (Poses(meshes') = Poses(meshes) /\ cameraPosition' = cameraPosition)
       /\ op' = "animate"
             => \E time \in TimeSamples :
                   cameraPosition' =
                       [x |-> cameraPosition.x
                                + (time[1] * CamScale - cameraPosition.x) \div CamAlphaInv,
                        y |-> cameraPosition.y
                                + (time[2] * CamScale - cameraPosition.y) \div CamAlphaInv,
                        z |-> cameraPosition.z]]_vars

\* C20 witness: the effect has just processed PINCH after a tick: the targets are
\* the Focus entries, the objects are where the tick left them and the camera is
\* where it had drifted to.
C20_Witness ==
    /\ op = "effect"
    /\ lastCall = "PINCH"
    /\ currentGesture = "PINCH"
    /\ since = 0
    /\ ticks = MaxProgramTicks
    /\ Poses(meshes) = origin
    /\ \A i \in Indices :
          /\ meshes[i].userData.targetPosition = Ref("focus", i)
          /\ meshes[i].position # Scaled(targets.focus[i])
    /\ cameraPosition # InitialCamera

====
